---- MODULE Spec2Model ----
(***************************************************************************)
(* Page hierarchy service (apps/server/.../page.service.ts) and the        *)
(* comment list item component (client/.../comment-list-item.tsx).         *)
(*                                                                         *)
(* The page store is a table of rows; every repository call (findById,     *)
(* insertPage, updatePage, deletePage, the lastPage query) is one atomic   *)
(* step, and the service methods are sequences of such steps separated by  *)
(* awaits, so calls running at the same time interleave between them.      *)
(***************************************************************************)
EXTENDS Integers, Sequences, FiniteSets, TLC

\* ------------------------------------------------------------------ bounds
MaxPages == 3
MaxCalls == 2
MaxOps == 4
MaxContentOps == 3
MaxSiblingOps == 2
MaxRuns == 2
MaxKeyLen == 3

\* ------------------------------------------------------- fractional keys
\* A key is a string; a character is modelled by its rank in code-point
\* order: the digits "0" < "1", then the integer head "a".
Digits == {0, 1}
Heads == {3}
Chars == Digits \cup Heads

\* Length of the integer part announced by a head character ("a" announces
\* one digit after the head).
IntegerLength(head) == 2

KeyStrings == UNION {[1..n -> Chars] : n \in 0..MaxKeyLen}

\* Lexicographic order of strings, the order of the position column.
LexLess(a, b) ==
    \E i \in 1..(Len(a) + 1) :
        /\ i <= Len(b)
        /\ \A j \in 1..(i - 1) : a[j] = b[j]
        /\ (i = Len(a) + 1 \/ a[i] < b[i])

\* validateOrderKey: a head, an integer part of the announced length made of
\* digits, and a fractional part of digits that does not end in the zero digit.
ValidKey(k) ==
    /\ Len(k) >= 1
    /\ k[1] \in Heads
    /\ Len(k) >= IntegerLength(k[1])
    /\ \A i \in 2..Len(k) : k[i] \in Digits
    /\ (Len(k) > IntegerLength(k[1]) => k[Len(k)] # 0)

ValidKeys == {k \in KeyStrings : ValidKey(k)}

\* Strings that are not keys, one for each way validateOrderKey rejects:
\* "", "a" (shorter than its integer part), "01" (no head), "aa" (a letter
\* where a digit belongs) and "a00" (a fraction ending in the zero digit).
InvalidKeys == {<<>>, <<3>>, <<0, 1>>, <<3, 3>>, <<3, 0, 0>>}

\* The position values a move request is tried with.
PositionInputs == ValidKeys \cup InvalidKeys

\* An optional key: <<>> is null, <<k>> is the key k.
NoKey == <<>>
SomeKey(k) == <<k>>

\* generateJitteredKeyBetween(lower, upper) throws when a bound is not a valid
\* key or the bounds are not in order.
GenerateThrows(lower, upper) ==
    \/ (lower # NoKey /\ ~ValidKey(lower[1]))
    \/ (upper # NoKey /\ ~ValidKey(upper[1]))
    \/ (lower # NoKey /\ upper # NoKey /\ ~LexLess(lower[1], upper[1]))

\* The keys generateJitteredKeyBetween(lower, upper) can return: the jitter is
\* random, so any valid key strictly between the bounds.
GenerateJitteredKeyBetween(lower, upper) ==
    IF GenerateThrows(lower, upper) THEN {}
    ELSE {k \in ValidKeys :
            /\ (lower # NoKey => LexLess(lower[1], k))
            /\ (upper # NoKey => LexLess(k, upper[1]))}

\* ------------------------------------------------------------ page store
PageIds == 1..MaxPages
SpaceIds == {"s1"}
Titles == {"untitled", "renamed"}
Contents == {"empty", "edited"}
Calls == 1..MaxCalls

\* parentPageId: Null is SQL NULL / JS null; Undefined is a field left out
\* of an update.
Null == 0
Undefined == -1

NoPage == [exists |-> FALSE, parentPageId |-> Null, position |-> <<>>,
           spaceId |-> "s1", title |-> "untitled", content |-> "empty"]

Idle == [op |-> "idle", pc |-> "idle", pageId |-> Null, parentPageId |-> Null,
         position |-> <<>>, spaceId |-> "s1", sameParent |-> FALSE,
         left |-> Null, right |-> Null, lastPage |-> <<>>]

VARIABLES
    pages,      \* the pages table: PageIds -> row
    nextId,     \* the id the next inserted row gets
    calls,      \* the service calls in flight: Calls -> frame
    last,       \* the outcome of the call that completed most recently
    isEditing, isLoading, content,   \* CommentListItem state
    updateRuns, deleteRuns,          \* handleUpdateComment / handleDeleteComment runs
    marks, editorReady, stored       \* editor comment marks, editor atom, server comment

pageVars == <<pages, nextId, calls, last>>
commentVars == <<isEditing, isLoading, content, updateRuns, deleteRuns, marks,
                 editorReady, stored>>
vars == <<pages, nextId, calls, last, isEditing, isLoading, content,
          updateRuns, deleteRuns, marks, editorReady, stored>>

Exists(id) == id \in PageIds /\ pages[id].exists

\* pageRepo.findById(id): the row, or nothing when no row has that id.
FindById(id) == IF Exists(id) THEN <<pages[id]>> ELSE <<>>

InFlight == {c \in Calls : calls[c].op # "idle"}
Started == last.n + Cardinality(InFlight)

\* A call returns or throws: its operation, the page it was about, how it
\* ended, and whether the position it was given is a valid key.
Complete(op, pageId, result, validPosition) ==
    last' = [n |-> last.n + 1, op |-> op, pageId |-> pageId,
             result |-> result, validPosition |-> validPosition]

\* ----------------------------------------------------------------- create
\* The rows the lastPage query of create ranges over.
LastPageCandidates(spaceId, parentPageId) ==
    {id \in PageIds :
        /\ pages[id].exists
        /\ pages[id].spaceId = spaceId
        /\ pages[id].parentPageId = parentPageId}

\* The lastPage query ordered the other way: the first sibling, not the last.
LastPageAscending(spaceId, parentPageId) ==
    {id \in LastPageCandidates(spaceId, parentPageId) :
        \A o \in LastPageCandidates(spaceId, parentPageId) :
            ~LexLess(pages[o].position, pages[id].position)}

\* orderBy('position', 'desc').limit(1): the positions a first row can have.
LastPage(spaceId, parentPageId) ==
    {id \in LastPageCandidates(spaceId, parentPageId) :
        \A o \in LastPageCandidates(spaceId, parentPageId) :
            ~LexLess(pages[id].position, pages[o].position)}

\* create, to its first await: the parent check.
CreateCheckParent(c, spaceId, parentPageId) ==
    /\ calls[c].op = "idle"
    /\ nextId + Cardinality({d \in Calls : calls[d].op = "create"}) <= MaxPages
    /\ IF parentPageId # Null /\ FindById(parentPageId) = <<>>
       THEN /\ Complete("create", Null, "NotFound", TRUE)
            /\ UNCHANGED calls
       ELSE /\ calls' = [calls EXCEPT ![c] =
                    [Idle EXCEPT !.op = "create", !.pc = "lastPage",
                                 !.spaceId = spaceId,
                                 !.parentPageId = parentPageId]]
            /\ UNCHANGED last
    /\ UNCHANGED <<pages, nextId>>
    /\ UNCHANGED commentVars

\* create: the lastPage query and the key generated from its answer.
CreateLastPage(c) ==
    /\ calls[c].op = "create" /\ calls[c].pc = "lastPage"
    /\ LET lasts == LastPage(calls[c].spaceId, calls[c].parentPageId)
           lowers == IF lasts = {} THEN {NoKey}
                     ELSE {SomeKey(pages[id].position) : id \in lasts}
       IN \E lower \in lowers :
            \E k \in GenerateJitteredKeyBetween(lower, NoKey) :
                calls' = [calls EXCEPT ![c].pc = "insert", ![c].position = k,
                                       ![c].lastPage = lower]
    /\ UNCHANGED <<pages, nextId, last>>
    /\ UNCHANGED commentVars

\* create: pageRepo.insertPage.
CreateInsert(c) ==
    /\ calls[c].op = "create" /\ calls[c].pc = "insert"
    /\ pages' = [pages EXCEPT ![nextId] =
            [exists |-> TRUE, parentPageId |-> calls[c].parentPageId,
             position |-> calls[c].position, spaceId |-> calls[c].spaceId,
             title |-> "untitled", content |-> "empty"]]
    /\ nextId' = nextId + 1
    /\ calls' = [calls EXCEPT ![c] = Idle]
    /\ Complete("create", nextId, "ok", TRUE)
    /\ UNCHANGED commentVars

\* ------------------------------------------------------------- updatePage
\* pageRepo.updatePage(fields, pageId): sets the given columns of the row
\* with that id, when there is one; a column given as Undefined is left.
UpdatePage(table, fields, pageId) ==
    IF pageId \in PageIds /\ table[pageId].exists
    THEN [table EXCEPT ![pageId] =
            [f \in DOMAIN table[pageId] |->
                IF f \in DOMAIN fields
                   /\ ~(f = "parentPageId" /\ fields[f] = Undefined)
                THEN fields[f] ELSE table[pageId][f]]]
    ELSE table

\* ------------------------------------------------------------- movePage
\* The siblings of the destination group other than the moved page.
Siblings(spaceId, parentPageId, pageId) ==
    {id \in PageIds \ {pageId} :
        /\ pages[id].exists
        /\ pages[id].spaceId = spaceId
        /\ pages[id].parentPageId = parentPageId}

\* The neighbours of the gap a proposed position falls in: the sibling just
\* before it and the sibling just after it in the destination group, Null
\* when the position is not strictly between two siblings.
GapLeft(pageId, parentPageId, position) ==
    LET sibs == Siblings(pages[pageId].spaceId, parentPageId, pageId)
        below == {l \in sibs : LexLess(pages[l].position, position)}
    IN IF below = {} THEN Null
       ELSE CHOOSE l \in below :
            \A o \in below : ~LexLess(pages[l].position, pages[o].position)

GapRight(pageId, parentPageId, position) ==
    LET sibs == Siblings(pages[pageId].spaceId, parentPageId, pageId)
        above == {r \in sibs : LexLess(position, pages[r].position)}
    IN IF above = {} THEN Null
       ELSE CHOOSE r \in above :
            \A o \in above : ~LexLess(pages[o].position, pages[r].position)

\* A position check that throws for the empty string alone.
PositionRejectedEmptyOnly(position) == position = <<>>

\* movePage's position check: generateJitteredKeyBetween(dto.position, null)
\* throws.
PositionRejected(position) == GenerateThrows(SomeKey(position), NoKey)

\* movePage, to its first await: the position check and the moved page.
MoveFindMoved(c, pageId, parentPageId, position) ==
    /\ calls[c].op = "idle"
    /\ IF PositionRejected(position)
       THEN /\ Complete("movePage", pageId, "BadRequest", ValidKey(position))
            /\ UNCHANGED calls
       ELSE IF FindById(pageId) = <<>>
       THEN /\ Complete("movePage", pageId, "NotFound", ValidKey(position))
            /\ UNCHANGED calls
       ELSE LET movedPage == FindById(pageId)[1]
                same == movedPage.parentPageId = parentPageId
                l == GapLeft(pageId, parentPageId, position)
                r == GapRight(pageId, parentPageId, position)
            IN /\ calls' = [calls EXCEPT ![c] =
                    [Idle EXCEPT !.op = "movePage",
                                 !.pc = IF ~same /\ parentPageId # Null
                                        THEN "findParent" ELSE "update",
                                 !.pageId = pageId,
                                 !.parentPageId = parentPageId,
                                 !.position = position,
                                 !.sameParent = same,
                                 !.left = IF r = Null THEN Null ELSE l,
                                 !.right = IF l = Null THEN Null ELSE r]]
               /\ UNCHANGED last
    /\ UNCHANGED <<pages, nextId>>
    /\ UNCHANGED commentVars

\* movePage: the parent check made when the parent changes.
MoveFindParent(c) ==
    /\ calls[c].op = "movePage" /\ calls[c].pc = "findParent"
    /\ IF FindById(calls[c].parentPageId) = <<>>
       THEN /\ calls' = [calls EXCEPT ![c] = Idle]
            /\ Complete("movePage", calls[c].pageId, "NotFound",
                        ValidKey(calls[c].position))
       ELSE /\ calls' = [calls EXCEPT ![c].pc = "update"]
            /\ UNCHANGED last
    /\ UNCHANGED <<pages, nextId>>
    /\ UNCHANGED commentVars

\* A parentPageId local that is never assigned.
MoveParentFieldUnassigned(c) == Undefined

\* The parentPageId local of movePage: undefined when the parent is kept.
MoveParentField(c) ==
    IF calls[c].sameParent THEN Undefined ELSE calls[c].parentPageId

\* A movePage that writes the key its check generated after the proposed
\* position, when there is one.
MovePositionGenerated(c) ==
    LET after == GenerateJitteredKeyBetween(SomeKey(calls[c].position), NoKey)
    IN IF after = {} THEN calls[c].position
       ELSE CHOOSE k \in after : \A o \in after : ~LexLess(o, k)

\* The position movePage writes: the one the request proposed.
MovePosition(c) == calls[c].position

\* A movePage that checks for duplicates before it writes: it refuses a
\* position that a sibling of the moved page holds.
MoveUpdateChecksDuplicates(c) ==
    /\ calls[c].op = "movePage" /\ calls[c].pc = "update"
    /\ IF \E o \in PageIds \ {calls[c].pageId} :
            pages[o].exists /\ pages[o].position = calls[c].position
       THEN /\ pages' = pages
            /\ Complete("movePage", calls[c].pageId, "BadRequest", TRUE)
       ELSE /\ pages' = UpdatePage(pages,
                            [position |-> calls[c].position,
                             parentPageId |-> MoveParentField(c)],
                            calls[c].pageId)
            /\ Complete("movePage", calls[c].pageId, "ok", TRUE)
    /\ calls' = [calls EXCEPT ![c] = Idle]
    /\ UNCHANGED nextId
    /\ UNCHANGED commentVars

\* movePage: pageRepo.updatePage.
MoveUpdate(c) ==
    /\ calls[c].op = "movePage" /\ calls[c].pc = "update"
    /\ pages' = UpdatePage(pages,
                    [position |-> MovePosition(c),
                     parentPageId |-> MoveParentField(c)],
                    calls[c].pageId)
    /\ calls' = [calls EXCEPT ![c] = Idle]
    /\ Complete("movePage", calls[c].pageId, "ok", ValidKey(calls[c].position))
    /\ UNCHANGED nextId
    /\ UNCHANGED commentVars

\* ---------------------------------------------- update, updateState, delete
\* An update that passes the whole page on, its position cleared.
UpdateFieldsWithPosition(title) == [title |-> title, position |-> <<>>]

\* The columns update sets (icon and lastUpdatedById go as the title does).
UpdateFields(title) == [title |-> title]

\* The columns updateState sets (textContent and ydoc go as content does).
UpdateStateFields(text) == [content |-> text]

Update(pageId, title) ==
    /\ pages' = UpdatePage(pages, UpdateFields(title), pageId)
    /\ Complete("update", pageId, "ok", TRUE)
    /\ UNCHANGED <<nextId, calls>>
    /\ UNCHANGED commentVars

UpdateState(pageId, text) ==
    /\ pages' = UpdatePage(pages, UpdateStateFields(text), pageId)
    /\ Complete("updateState", pageId, "ok", TRUE)
    /\ UNCHANGED <<nextId, calls>>
    /\ UNCHANGED commentVars

\* forceDelete: pageRepo.deletePage removes the row with that id.
ForceDelete(pageId) ==
    /\ pages' = [pages EXCEPT ![pageId] = NoPage]
    /\ Complete("forceDelete", pageId, "ok", TRUE)
    /\ UNCHANGED <<nextId, calls>>
    /\ UNCHANGED commentVars

\* -------------------------------------------------------- CommentListItem
Runs == 1..MaxRuns
CommentContents == {"c0", "c1"}
\* comment.id of this item, and the id of another comment marked in the editor.
CommentIds == {"this", "other"}

\* editorAtom receives the page editor once it is mounted.
EditorMounts ==
    /\ ~editorReady
    /\ editorReady' = TRUE
    /\ UNCHANGED <<isEditing, isLoading, content, updateRuns, deleteRuns, marks,
                   stored>>
    /\ UNCHANGED pageVars

\* handleEditToggle.
HandleEditToggle ==
    /\ isEditing' = TRUE
    /\ UNCHANGED <<isLoading, content, updateRuns, deleteRuns, marks,
                   editorReady, stored>>
    /\ UNCHANGED pageVars

\* CommentEditor onUpdate, rendered editable while isEditing.
SetContent(newContent) ==
    /\ isEditing
    /\ content' = newContent
    /\ UNCHANGED <<isEditing, isLoading, updateRuns, deleteRuns, marks,
                   editorReady, stored>>
    /\ UNCHANGED pageVars

\* handleUpdateComment to its await; CommentActions is rendered while isEditing.
HandleUpdateComment(r) ==
    /\ isEditing
    /\ updateRuns[r].pc = "idle"
    /\ isLoading' = TRUE
    /\ updateRuns' = [updateRuns EXCEPT ![r] = [pc |-> "await", sent |-> content]]
    /\ UNCHANGED <<isEditing, content, deleteRuns, marks, editorReady, stored>>
    /\ UNCHANGED pageVars

\* updateCommentMutation.mutateAsync settles: the server stored the content,
\* or the request failed.
UpdateMutationSettles(r, ok) ==
    /\ updateRuns[r].pc = "await"
    /\ updateRuns' = [updateRuns EXCEPT
            ![r].pc = IF ok THEN "resolved" ELSE "rejected"]
    /\ stored' = IF ok /\ ~stored.deleted
                 THEN [stored EXCEPT !.content = updateRuns[r].sent]
                 ELSE stored
    /\ (stored.deleted => ~ok)
    /\ UNCHANGED <<isEditing, isLoading, content, deleteRuns, marks, editorReady>>
    /\ UNCHANGED pageVars

\* handleUpdateComment after the await: the rest of try, then finally.
UpdateResolved(r) ==
    /\ updateRuns[r].pc = "resolved"
    /\ isEditing' = FALSE
    /\ isLoading' = FALSE
    /\ updateRuns' = [updateRuns EXCEPT ![r].pc = "done"]
    /\ UNCHANGED <<content, deleteRuns, marks, editorReady, stored>>
    /\ UNCHANGED pageVars

\* A catch that closes the editor as the try does.
UpdateRejectedClosesEditor(r) ==
    /\ updateRuns[r].pc = "rejected"
    /\ isEditing' = FALSE
    /\ isLoading' = FALSE
    /\ updateRuns' = [updateRuns EXCEPT ![r].pc = "failed"]
    /\ UNCHANGED <<content, deleteRuns, marks, editorReady, stored>>
    /\ UNCHANGED pageVars

\* handleUpdateComment after the await: catch, then finally.
UpdateRejected(r) ==
    /\ updateRuns[r].pc = "rejected"
    /\ isLoading' = FALSE
    /\ updateRuns' = [updateRuns EXCEPT ![r].pc = "failed"]
    /\ UNCHANGED <<isEditing, content, deleteRuns, marks, editorReady, stored>>
    /\ UNCHANGED pageVars

\* A handleDeleteComment that removes the mark before the mutation settles.
HandleDeleteCommentUnsetsFirst(r) ==
    /\ deleteRuns[r].pc = "idle"
    /\ deleteRuns' = [deleteRuns EXCEPT ![r].pc = "await"]
    /\ marks' = IF editorReady THEN marks \ {"this"} ELSE marks
    /\ UNCHANGED <<isEditing, isLoading, content, updateRuns, editorReady, stored>>
    /\ UNCHANGED pageVars

\* handleDeleteComment to its await.
HandleDeleteComment(r) ==
    /\ deleteRuns[r].pc = "idle"
    /\ deleteRuns' = [deleteRuns EXCEPT ![r].pc = "await"]
    /\ UNCHANGED <<isEditing, isLoading, content, updateRuns, marks,
                   editorReady, stored>>
    /\ UNCHANGED pageVars

\* deleteCommentMutation.mutateAsync settles.
DeleteMutationSettles(r, ok) ==
    /\ deleteRuns[r].pc = "await"
    /\ (stored.deleted => ~ok)
    /\ deleteRuns' = [deleteRuns EXCEPT
            ![r].pc = IF ok THEN "resolved" ELSE "rejected"]
    /\ stored' = IF ok THEN [stored EXCEPT !.deleted = TRUE] ELSE stored
    /\ UNCHANGED <<isEditing, isLoading, content, updateRuns, marks, editorReady>>
    /\ UNCHANGED pageVars

\* editor?.commands.unsetComment(id): removes that comment's mark when there
\* is an editor.
UnsetComment(id) == IF editorReady THEN marks \ {id} ELSE marks

\* handleDeleteComment after the await: the rest of try.
DeleteResolved(r) ==
    /\ deleteRuns[r].pc = "resolved"
    /\ marks' = UnsetComment("this")
    /\ deleteRuns' = [deleteRuns EXCEPT ![r].pc = "done"]
    /\ UNCHANGED <<isEditing, isLoading, content, updateRuns, editorReady, stored>>
    /\ UNCHANGED pageVars

\* handleDeleteComment after the await: catch.
DeleteRejected(r) ==
    /\ deleteRuns[r].pc = "rejected"
    /\ deleteRuns' = [deleteRuns EXCEPT ![r].pc = "failed"]
    /\ UNCHANGED <<isEditing, isLoading, content, updateRuns, marks,
                   editorReady, stored>>
    /\ UNCHANGED pageVars

\* ------------------------------------------------------------------ specs
PageInit ==
    /\ pages = [id \in PageIds |-> NoPage]
    /\ nextId = 1
    /\ calls = [c \in Calls |-> Idle]
    /\ last = [n |-> 0, op |-> "none", pageId |-> Null, result |-> "ok",
               validPosition |-> TRUE]

CommentInit ==
    /\ isEditing = FALSE
    /\ isLoading = FALSE
    /\ content = "c0"
    /\ updateRuns = [r \in Runs |-> [pc |-> "idle", sent |-> "c0"]]
    /\ deleteRuns = [r \in Runs |-> [pc |-> "idle"]]
    /\ marks = CommentIds
    /\ editorReady = FALSE
    /\ stored = [content |-> "c0", deleted |-> FALSE]

Init == PageInit /\ CommentInit

\* Requests that start a call.
CreateRequest ==
    \E c \in Calls, s \in SpaceIds, p \in PageIds \cup {Null} :
        CreateCheckParent(c, s, p)

MoveRequest ==
    \E c \in Calls, id \in PageIds, p \in PageIds \cup {Null},
       k \in PositionInputs : MoveFindMoved(c, id, p, k)

DeleteRequest == \E id \in PageIds : ForceDelete(id)

UpdateRequest == \E id \in PageIds, t \in Titles : Update(id, t)

UpdateStateRequest == \E id \in PageIds, t \in Contents : UpdateState(id, t)

\* The page hierarchy: create, movePage and forceDelete running together.
Next ==
    \/ Started < MaxOps /\ CreateRequest
    \/ Started < MaxOps /\ MoveRequest
    \/ Started < MaxOps /\ DeleteRequest
    \/ \E c \in Calls : CreateLastPage(c)
    \/ \E c \in Calls : CreateInsert(c)
    \/ \E c \in Calls : MoveFindParent(c)
    \/ \E c \in Calls : MoveUpdate(c)

Spec == Init /\ [][Next]_vars

\* Every page operation, update and updateState included.
ContentNext ==
    \/ Started < MaxContentOps /\ CreateRequest
    \/ Started < MaxContentOps /\ MoveRequest
    \/ Started < MaxContentOps /\ DeleteRequest
    \/ Started < MaxContentOps /\ UpdateRequest
    \/ Started < MaxContentOps /\ UpdateStateRequest
    \/ \E c \in Calls : CreateLastPage(c)
    \/ \E c \in Calls : CreateInsert(c)
    \/ \E c \in Calls : MoveFindParent(c)
    \/ \E c \in Calls : MoveUpdate(c)

ContentSpec == Init /\ [][ContentNext]_vars

\* Moves among pages that are already there: three pages of one space as
\* three create calls, one after the other, leave them (pages 1 and 2 at the
\* root, page 3 appended to the root or under page 1).
SiblingInit ==
    /\ \E k1 \in GenerateJitteredKeyBetween(NoKey, NoKey) :
       \E k2 \in GenerateJitteredKeyBetween(SomeKey(k1), NoKey) :
       \E p3 \in {Null, 1} :
       \E k3 \in GenerateJitteredKeyBetween(
                    IF p3 = Null THEN SomeKey(k2) ELSE NoKey, NoKey) :
            pages = [id \in PageIds |->
                IF id > 3 THEN NoPage
                ELSE [exists |-> TRUE,
                      parentPageId |-> IF id = 3 THEN p3 ELSE Null,
                      position |-> IF id = 1 THEN k1 ELSE IF id = 2 THEN k2 ELSE k3,
                      spaceId |-> "s1", title |-> "untitled",
                      content |-> "empty"]]
    /\ nextId = 4
    /\ calls = [c \in Calls |-> Idle]
    /\ last = [n |-> 0, op |-> "create", pageId |-> 3, result |-> "ok",
               validPosition |-> TRUE]
    /\ CommentInit

SiblingNext ==
    \/ Started < MaxSiblingOps /\ MoveRequest
    \/ Started < MaxSiblingOps /\ DeleteRequest
    \/ \E c \in Calls : MoveFindParent(c)
    \/ \E c \in Calls : MoveUpdate(c)

SiblingSpec == SiblingInit /\ [][SiblingNext]_vars

\* The comment list item: edits, saves and deletes of one comment.
CommentNext ==
    \/ EditorMounts
    \/ HandleEditToggle
    \/ \E v \in CommentContents : SetContent(v)
    \/ \E r \in Runs : HandleUpdateComment(r)
    \/ \E r \in Runs, ok \in BOOLEAN : UpdateMutationSettles(r, ok)
    \/ \E r \in Runs : UpdateResolved(r)
    \/ \E r \in Runs : UpdateRejected(r)
    \/ \E r \in Runs : HandleDeleteComment(r)
    \/ \E r \in Runs, ok \in BOOLEAN : DeleteMutationSettles(r, ok)
    \/ \E r \in Runs : DeleteResolved(r)
    \/ \E r \in Runs : DeleteRejected(r)

CommentSpec == Init /\ [][CommentNext]_vars

\* ----------------------------------------------------------------- claims
\* The step in which call c does its write.
CreateInserts(c) ==
    calls[c].op = "create" /\ calls[c].pc = "insert" /\ calls'[c].op = "idle"

CreateReads(c) ==
    calls[c].op = "create" /\ calls[c].pc = "lastPage" /\ calls'[c].pc = "insert"

MoveWrites(c) ==
    calls[c].op = "movePage" /\ calls[c].pc = "update" /\ calls'[c].op = "idle"

Returned == last'.n # last.n

SameGroup(a, b) ==
    /\ pages[a].spaceId = pages[b].spaceId
    /\ pages[a].parentPageId = pages[b].parentPageId

\* C1: a movePage call given a position that is not a valid key ends with
\* BadRequest and leaves every row of the table as it was, whatever page and
\* parent it names; no call carries such a position past the check.
C1_InvalidPositionRejected ==
    [][/\ (Returned /\ last'.op = "movePage" /\ ~last'.validPosition)
            => (last'.result = "BadRequest" /\ pages' = pages /\ calls' = calls)
       /\ \A c \in Calls :
            calls'[c].op = "movePage" => ValidKey(calls'[c].position)]_vars

\* C1 witness: a move with an invalid position was rejected while the table
\* held a page.
C1_Witness ==
    /\ last.op = "movePage" /\ ~last.validPosition /\ last.result = "BadRequest"
    /\ \E id \in PageIds : Exists(id)

\* C2: create inserts and movePage writes only when every page the call
\* refers to is in the table at that moment: the parent given to create, the
\* moved page, the parent given to movePage.
C2_NotFoundWhenMissing ==
    [][\A c \in Calls :
        /\ (CreateInserts(c) /\ calls[c].parentPageId # Null)
                => Exists(calls[c].parentPageId)
        /\ MoveWrites(c)
                => /\ Exists(calls[c].pageId)
                   /\ (calls[c].parentPageId # Null
                            => Exists(calls[c].parentPageId))]_vars

C4_InsertedLast ==
    [][\A c \in Calls : CreateInserts(c) =>
        \A o \in LastPageCandidates(calls[c].spaceId, calls[c].parentPageId) :
            LexLess(pages[o].position, pages'[nextId].position)]_vars

\* C4 amended: the position create inserts is generated after the last
\* sibling its lastPage query read (both bounds null when it read none), which
\* is then the greatest of the group; at the insert it is strictly greater than
\* every sibling unless a sibling above the one it read was written meanwhile.
C4_InsertedAfterLastRead ==
    [][\A c \in Calls :
        LET group == LastPageCandidates(calls[c].spaceId, calls[c].parentPageId)
        IN
        /\ CreateReads(c) =>
            /\ \A o \in group : LexLess(pages[o].position, calls'[c].position)
            /\ (group = {} <=> calls'[c].lastPage = NoKey)
            /\ calls'[c].position \in
                    GenerateJitteredKeyBetween(calls'[c].lastPage, NoKey)
        /\ CreateInserts(c) =>
            /\ pages'[nextId] = [NoPage EXCEPT
                    !.exists = TRUE, !.position = calls[c].position,
                    !.parentPageId = calls[c].parentPageId,
                    !.spaceId = calls[c].spaceId]
            /\ \A o \in PageIds \ {nextId} : pages'[o] = pages[o]
            /\ (\A o \in group :
                    /\ calls[c].lastPage # NoKey
                    /\ ~LexLess(calls[c].lastPage[1], pages[o].position))
                => \A o \in group :
                        LexLess(pages[o].position, pages'[nextId].position)]_vars

\* C4 witness: a create has appended a page to a group that had pages, and
\* another has started a group.
C4_Witness ==
    /\ last.op = "create" /\ last.result = "ok"
    /\ \E a, b \in PageIds :
        /\ a < b /\ Exists(a) /\ Exists(b) /\ SameGroup(a, b)
        /\ LexLess(pages[a].position, pages[b].position)
        /\ last.pageId = b
    /\ \E d \in PageIds : Exists(d) /\ pages[d].parentPageId # Null

\* C5 as claimed: a move that proposes a position strictly between two
\* siblings l and r of the destination group leaves the moved page between
\* them: when its write is done and l and r are still siblings there with
\* l before r, position(l) < position(moved) < position(r).
C5_InsertedBetween ==
    [][\A c \in Calls : (MoveWrites(c) /\ calls[c].left # Null) =>
        LET m == calls[c].pageId
            l == calls[c].left
            r == calls[c].right
        IN (/\ Exists(m) /\ Exists(l) /\ Exists(r)
            /\ SameGroup(l, r)
            /\ pages[l].parentPageId = calls[c].parentPageId
            /\ LexLess(pages[l].position, pages[r].position))
           => /\ LexLess(pages'[l].position, pages'[m].position)
              /\ LexLess(pages'[m].position, pages'[r].position)]_vars

\* C5 amended: movePage stores the proposed position as it is and touches no
\* sibling, so the moved page is strictly between l and r after the write
\* exactly when the proposed position is strictly between their positions at
\* the time of the write.
C5_BetweenWhenNeighboursStand ==
    [][\A c \in Calls : MoveWrites(c) =>
        LET m == calls[c].pageId IN
        Exists(m) =>
            /\ pages'[m].position = calls[c].position
            /\ \A l, r \in PageIds \ {m} :
                (Exists(l) /\ Exists(r)) =>
                    ((/\ LexLess(pages[l].position, calls[c].position)
                      /\ LexLess(calls[c].position, pages[r].position))
                     <=> (/\ LexLess(pages'[l].position, pages'[m].position)
                          /\ LexLess(pages'[m].position, pages'[r].position)))]_vars

\* C5 witness: a move has left its page strictly between the two siblings it
\* was placed between.
C5_Witness ==
    /\ last.op = "movePage" /\ last.result = "ok" /\ Exists(last.pageId)
    /\ \E l, r \in PageIds \ {last.pageId} :
        /\ Exists(l) /\ Exists(r)
        /\ SameGroup(l, r) /\ SameGroup(l, last.pageId)
        /\ LexLess(pages[l].position, pages[last.pageId].position)
        /\ LexLess(pages[last.pageId].position, pages[r].position)
        /\ last.pageId > r /\ last.pageId > l

\* C6: an update or updateState call leaves the position, the parentPageId
\* and the existence of every page as they were, and changes no row but the
\* one of the page it names.
C6_UpdateKeepsPlace ==
    [][(Returned /\ last'.op \in {"update", "updateState"}) =>
        /\ \A id \in PageIds :
            /\ pages'[id].position = pages[id].position
            /\ pages'[id].parentPageId = pages[id].parentPageId
            /\ pages'[id].exists = pages[id].exists
            /\ pages'[id].spaceId = pages[id].spaceId
        /\ \A id \in PageIds \ {last'.pageId} : pages'[id] = pages[id]]_vars

\* C6 witness: an update or updateState has changed a child page.
C6_Witness ==
    /\ last.op \in {"update", "updateState"}
    /\ \E id \in PageIds :
        /\ Exists(id) /\ last.pageId = id
        /\ (pages[id].title = "renamed" \/ pages[id].content = "edited")
        /\ pages[id].parentPageId # Null

\* Two pages of one sibling group hold the same position.
DuplicatePosition ==
    \E a, b \in PageIds :
        /\ a # b /\ Exists(a) /\ Exists(b) /\ SameGroup(a, b)
        /\ pages[a].position = pages[b].position

\* C7: a movePage write that gives a page the position one of its siblings
\* holds is done as any other (it ends ok, the duplicate stands, the sibling
\* is not touched); no movePage step removes a page; and every page in the
\* table has a valid key as position and one parentPageId, null or an id.
C7_DuplicatesTolerated ==
    [][/\ \A c \in Calls : MoveWrites(c) =>
            /\ \A id \in PageIds : Exists(id) => pages'[id].exists
            /\ \A o \in PageIds \ {calls[c].pageId} :
                (/\ Exists(o) /\ Exists(calls[c].pageId)
                 /\ pages[o].position = calls[c].position)
                => /\ last'.result = "ok"
                   /\ pages'[o] = pages[o]
                   /\ pages'[calls[c].pageId].position = pages'[o].position
       /\ \A id \in PageIds : pages'[id].exists =>
            /\ ValidKey(pages'[id].position)
            /\ pages'[id].parentPageId \in PageIds \cup {Null}]_vars

\* C7 witness: a movePage has just given a page the position of a sibling,
\* while another movePage, on that sibling, is about to write.
C7_Witness ==
    /\ last.op = "movePage" /\ last.result = "ok"
    /\ \E a, b \in PageIds :
        /\ a # b /\ Exists(a) /\ Exists(b) /\ SameGroup(a, b)
        /\ pages[a].position = pages[b].position
        /\ last.pageId = a
        /\ \E c \in Calls : /\ calls[c].op = "movePage"
                             /\ calls[c].pc = "update"
                             /\ calls[c].pageId = b

\* The pages reached from id by following parentPageId one to MaxPages times.
RECURSIVE AncestorsWithin(_, _)
AncestorsWithin(id, steps) ==
    IF steps = 0 \/ ~Exists(id) \/ pages[id].parentPageId = Null THEN {}
    ELSE {pages[id].parentPageId}
            \cup AncestorsWithin(pages[id].parentPageId, steps - 1)

\* C8: the parentPageId pointers form a forest: no page is its own parent
\* or its own ancestor.
C8_Forest ==
    \A id \in PageIds : Exists(id) => id \notin AncestorsWithin(id, MaxPages)

\* C9: the step that ends a run of handleUpdateComment leaves isLoading
\* false, after a success and after a failure; a mutation that succeeds has
\* stored the content the run sent; isEditing goes from true to false only
\* in the step that follows a successful mutation; and the step
\* that follows a failed mutation leaves isEditing and the edited content as
\* they were.
C9_UpdateRunEnds ==
    [][/\ \A r \in Runs :
            (updateRuns[r].pc \in {"resolved", "rejected"}
             /\ updateRuns'[r].pc \in {"done", "failed"})
            => /\ ~isLoading'
               /\ (updateRuns[r].pc = "resolved" <=> updateRuns'[r].pc = "done")
       /\ \A r \in Runs :
            (updateRuns[r].pc = "await" /\ updateRuns'[r].pc = "resolved")
            => stored'.content = updateRuns[r].sent
       /\ (isEditing /\ ~isEditing')
            => \E r \in Runs : /\ updateRuns[r].pc = "resolved"
                               /\ updateRuns'[r].pc = "done"
       /\ \A r \in Runs :
            (updateRuns[r].pc = "rejected" /\ updateRuns'[r].pc = "failed")
            => (isEditing' = isEditing /\ content' = content)]_vars

\* C9 witness: a run has failed and left the editor open and not loading,
\* and another has succeeded before it.
C9_Witness ==
    /\ isEditing /\ ~isLoading
    /\ \E r, q \in Runs : updateRuns[r].pc = "failed" /\ updateRuns[q].pc = "done"

\* C10: the mark of this comment leaves the editor only in the step that
\* follows a successful delete mutation, when the server has deleted the
\* comment; the step that follows a failed delete mutation leaves the marks
\* as they are, and no step touches the mark of another comment.
C10_UnsetAfterDelete ==
    [][/\ ("this" \in marks /\ "this" \notin marks')
            => /\ stored.deleted
               /\ \E r \in Runs : /\ deleteRuns[r].pc = "resolved"
                                  /\ deleteRuns'[r].pc = "done"
       /\ \A r \in Runs :
            (deleteRuns[r].pc = "rejected" /\ deleteRuns'[r].pc = "failed")
            => marks' = marks
       /\ "other" \in marks']_vars

\* C10 witness: one delete run failed, the mark still there, and a later one
\* succeeded and removed it.
C10_Witness ==
    /\ "this" \notin marks /\ stored.deleted
    /\ \E r, q \in Runs : deleteRuns[r].pc = "failed" /\ deleteRuns[q].pc = "done"

====
